---- MODULE Spec2Model ----
(***************************************************************************)
(* A model of src/src/App.tsx: the Physics provider (one-time engine load, *)
(* the bodies registry, the per-frame step and transform sync) and the     *)
(* RigidBody component (mount effect creating and registering a body,      *)
(* effect cleanup unregistering and destroying it).                        *)
(*                                                                         *)
(* Time is counted in units of 1/(30*55) second, so that the two           *)
(* thresholds of the frame callback, 1/30 s and 1/55 s, are integers.      *)
(* JavaScript runs each callback to completion: pc names the callback that *)
(* is on the stack, and only its continuation is enabled while pc is not   *)
(* "idle".                                                                 *)
(***************************************************************************)
EXTENDS Integers, Sequences, FiniteSets, TLC

\* Number of RigidBody component instances that may ever be mounted.
NumEnts == 2

Ents == 1..NumEnts

\* Math.min(delta, 1.0 / 30.0): the clamp frequency.
ClampHz == 30

\* deltaTime > 1.0 / 55.0: the sub-step threshold frequency.
SubstepHz == 55

\* Time units per second.
UnitsPerSecond == ClampHz * SubstepHz

\* 1/30 s in time units.
MaxDeltaTime == UnitsPerSecond \div ClampHz

\* 1/55 s in time units.
SubstepThreshold == UnitsPerSecond \div SubstepHz

\* The largest raw frame delta tried, in time units (1/15 s).
MaxRawDelta == 110

\* The raw frame deltas of the stepper's specification: every delta up to the
\* largest, so below, at and above both thresholds.
RawDeltas == 0..MaxRawDelta

\* The raw frame deltas of a scene with bodies: a fast frame (exactly 1/55 s, one
\* step, not clamped) and a slow one (above 1/30 s, two steps, clamped).
SceneDeltas == {SubstepThreshold, MaxDeltaTime + 1}

\* The shape and type props as they arrive at run time (the TypeScript types
\* are erased): each declared kind, and one value outside each union.
PropsSet ==
  { [shape |-> "box", type |-> "static"],
    [shape |-> "sphere", type |-> "kinematic"],
    [shape |-> "box", type |-> "dynamic"],
    [shape |-> "cone", type |-> "dynamic"],
    [shape |-> "box", type |-> "ghost"] }

\* The props of a re-render: a shape and a type other than those of the mount.
RerenderProps == { [shape |-> "sphere", type |-> "static"] }

NoProps == [shape |-> "none", type |-> "none"]

NullRef == 0

NoBody == 0

NoHist == [ticked |-> FALSE, others |-> FALSE, countBefore |-> 0]

NoCall == [raw |-> 0, deltaTime |-> 0, numSteps |-> 0]

NoRegCall == [op |-> "none", key |-> 0, before |-> <<>>, threw |-> "none"]

\* A new Group: position (0,0,0), identity quaternion.
NewObject3D(o) == [id |-> o, position |-> 0, quaternion |-> 0]

VARIABLES
  cache,      \* suspend-react's entry for the engine load: empty, pending, resolved
  world,      \* what the load created: [created, gravity]
  physics,    \* the Physics component: unmounted, suspended, mounted
  bodies,     \* the registry Map of the current Physics instance, in insertion order
  est,        \* per RigidBody instance: new, rendered, live, failed, unmounting, gone
  props,      \* per RigidBody instance: its current props
  ref,        \* per RigidBody instance: ref.current (an Object3D or NullRef)
  err,        \* per RigidBody instance: the error its effect or cleanup threw
  body,       \* per RigidBody instance: the `body` its effect closure holds
  three,      \* the Object3D of each instance's group
  jbodies,    \* the bodies allocated in the physics system
  added,      \* the body ids AddBody was called with and activated
  nextBodyId, \* the next id CreateBody hands out
  pc,         \* the callback on the stack
  cur,        \* the instance whose cleanup is on the stack
  stepArgs,   \* the frame callback's delta, deltaTime and numSteps
  synclog,    \* the records the running frame's sync loop has visited
  hist,       \* per instance, since its body was created: ticked (a frame ran),
              \* others (another instance's body was created or destroyed),
              \* countBefore (the world's body count before the creation)
  observing,  \* whether hist is being recorded in this behaviour
  regcall,    \* the last direct call of a registry operation: its operation, key,
              \* the Map before it and what it threw
  faulted     \* whether a call of joltInterface.Step has thrown

vars == <<cache, world, physics, bodies, est, props, ref, err, body, three,
          jbodies, added, nextBodyId, pc, cur, stepArgs, synclog, hist, observing,
          regcall, faulted>>

Min(a, b) == IF a < b THEN a ELSE b

-----------------------------------------------------------------------------
\* The registry: a JavaScript Map, kept as its entries in insertion order.

MapHas(m, k) == \E i \in 1..Len(m) : m[i].key = k

MapSet(m, k, t, b) ==
  IF MapHas(m, k)
    THEN [i \in 1..Len(m) |->
            IF m[i].key = k THEN [key |-> k, three |-> t, body |-> b] ELSE m[i]]
    ELSE Append(m, [key |-> k, three |-> t, body |-> b])

\* A delete that removes nothing.
MapDeleteKeeps(m, k) == m

MapDelete(m, k) == SelectSeq(m, LAMBDA r : r.key # k)

MapKeys(m) == {m[i].key : i \in 1..Len(m)}

-----------------------------------------------------------------------------
InitProgram ==
  /\ cache = "empty"
  /\ world = [created |-> 0, gravity |-> 0]
  /\ physics = "unmounted"
  /\ bodies = <<>>
  /\ est = [e \in Ents |-> "new"]
  /\ props = [e \in Ents |-> NoProps]
  /\ ref = [e \in Ents |-> NullRef]
  /\ err = [e \in Ents |-> "none"]
  /\ body = [e \in Ents |-> NoBody]
  /\ three = [o \in Ents |-> NewObject3D(o)]
  /\ jbodies = [b \in {} |-> NoBody]
  /\ added = {}
  /\ nextBodyId = 1
  /\ pc = "idle"
  /\ cur = 0
  /\ stepArgs = NoCall
  /\ synclog = <<>>
  /\ hist = [e \in Ents |-> NoHist]
  /\ regcall = NoRegCall
  /\ faulted = FALSE

Init == InitProgram /\ observing = FALSE

-----------------------------------------------------------------------------
\* The engine, as far as the program drives it.

\* An if-chain whose kinematic branch assigns jolt.Dynamic.
MotionTypeOfKinematicAsDynamic(type) ==
  CASE type = "static" -> "Static"
    [] type = "kinematic" -> "Dynamic"
    [] type = "dynamic" -> "Dynamic"
    [] OTHER -> "unsupported"

\* type -> motionType, the if-chain of the effect.
MotionTypeOf(type) ==
  CASE type = "static" -> "Static"
    [] type = "kinematic" -> "Kinematic"
    [] type = "dynamic" -> "Dynamic"
    [] OTHER -> "unsupported"

\* type -> objectLayer, the if-chain of the effect.
ObjectLayerOf(type) ==
  CASE type = "static" -> "NON_MOVING"
    [] type = "kinematic" -> "MOVING"
    [] type = "dynamic" -> "MOVING"
    [] OTHER -> "unsupported"

\* A shape selection without its final else.
ShapeSupportedAny(shapeType) == TRUE

ShapeSupported(shapeType) == shapeType = "box" \/ shapeType = "sphere"

\* A motion type selection without its final else.
TypeSupportedAny(type) == TRUE

TypeSupported(type) == type = "static" \/ type = "kinematic" \/ type = "dynamic"

\* new BodyCreationSettings(shape, position, Quat(0,0,0,1), motionType, objectLayer):
\* the body starts at the position prop (1, away from the group's origin 0) with
\* the identity rotation (0).
BodyCreationSettings(e, p) ==
  [owner |-> e, shape |-> p.shape, motionType |-> MotionTypeOf(p.type),
   objectLayer |-> ObjectLayerOf(p.type), p |-> 1, q |-> 0]

\* bodyInterface.CreateBody(creationSettings)
CreateBody(jb, id, settings) == jb @@ (id :> settings)

\* bodyInterface.AddBody(id, activation): the body joins the system, and the
\* bodies the step simulates when the activation is jolt.Activate.
AddBody(ad, id, activation) == IF activation = "Activate" THEN ad \cup {id} ELSE ad

\* bodyInterface.DestroyBody(id)
DestroyBody(jb, id) == [b \in DOMAIN jb \ {id} |-> jb[b]]

\* joltInterface.Step(deltaTime, numSteps): the solver is opaque; a Dynamic body
\* that was added to the system moves to its other pose, every other body stays.
JoltStep(jb, inSystem) ==
  [b \in DOMAIN jb |->
     IF jb[b].motionType = "Dynamic" /\ b \in inSystem
       THEN [jb[b] EXCEPT !.p = 1 - jb[b].p, !.q = 1 - jb[b].q]
       ELSE jb[b]]

\* body.GetPosition() / body.GetRotation(); g is what a read of a destroyed
\* body yields.
GetPosition(jb, b, g) == IF b \in DOMAIN jb THEN jb[b].p ELSE g

GetRotation(jb, b, g) == IF b \in DOMAIN jb THEN jb[b].q ELSE g

-----------------------------------------------------------------------------
\* React's scheduling, as far as the program depends on it.

\* No passive effect or cleanup is pending: React flushes them before it renders
\* or commits anything else.
NoPendingEffects == \A e \in Ents : est[e] \notin {"rendered", "unmounting"}

\* An effect that runs after every render, its previous run not cleaned up.
EffectPendingEveryRender(e) == est[e] \in {"rendered", "live"}

\* useEffect(..., []): the effect runs once, after the commit that mounted the
\* instance.
EffectPending(e) == est[e] = "rendered"

Idle == pc = "idle"

-----------------------------------------------------------------------------
\* Physics

\* First render of Physics with an empty cache: suspend() starts the load and
\* throws its promise.
PhysicsSuspend ==
  /\ Idle /\ NoPendingEffects
  /\ physics = "unmounted" /\ cache = "empty"
  /\ cache' = "pending"
  /\ physics' = "suspended"
  /\ UNCHANGED <<world, bodies, est, props, ref, err, body, three, jbodies, added,
                 nextBodyId, pc, cur, stepArgs, synclog, hist, observing,
                 regcall, faulted>>

\* The async function of suspend() resolves: Jolt() loaded, settings, interface,
\* physics system and body interface created, gravity set.
JoltResolve ==
  /\ Idle
  /\ cache = "pending"
  /\ cache' = "resolved"
  /\ world' = [created |-> world.created + 1, gravity |-> 0 - 10]
  /\ UNCHANGED <<physics, bodies, est, props, ref, err, body, three, jbodies, added,
                 nextBodyId, pc, cur, stepArgs, synclog, hist, observing,
                 regcall, faulted>>

\* A Physics that renders past suspend() as soon as the load was started.
EngineRequested == cache # "empty"

\* suspend() returns the load's result, lines 27-39, only once its promise has
\* resolved; until then it throws the promise and nothing below it renders.
EngineReady == cache = "resolved"

\* Physics renders with the load resolved and commits: useConst makes this
\* instance's Map, useFrame subscribes the frame callback.
PhysicsMount ==
  /\ Idle /\ NoPendingEffects
  /\ physics \in {"unmounted", "suspended"} /\ EngineReady
  /\ physics' = "mounted"
  /\ bodies' = <<>>
  /\ UNCHANGED <<cache, world, est, props, ref, err, body, three, jbodies, added,
                 nextBodyId, pc, cur, stepArgs, synclog, hist, observing,
                 regcall, faulted>>

\* Physics unmounts (scene teardown): the commit unsubscribes the frame callback
\* and removes every RigidBody below it. An instance whose effect returned a
\* cleanup has that cleanup pending; detached says whether React has already
\* reset the refs of the removed groups by the time the cleanups run.
PhysicsUnmount ==
  /\ Idle /\ NoPendingEffects
  /\ physics = "mounted"
  /\ \E detached \in BOOLEAN :
       /\ physics' = "unmounted"
       /\ est' = [e \in Ents |->
                    CASE est[e] = "live" -> "unmounting"
                      [] est[e] = "failed" -> "gone"
                      [] OTHER -> est[e]]
       /\ ref' = [e \in Ents |->
                    IF est[e] = "failed" \/ (est[e] = "live" /\ detached)
                      THEN NullRef ELSE ref[e]]
       /\ props' = [e \in Ents |-> IF est[e] \in {"live", "failed"} THEN NoProps ELSE props[e]]
  /\ UNCHANGED <<cache, world, bodies, err, body, three, jbodies, added,
                 nextBodyId, pc, cur, stepArgs, synclog, hist, observing,
                 regcall, faulted>>

-----------------------------------------------------------------------------
\* RigidBody

\* A RigidBody is rendered below a mounted Physics and committed: its group
\* exists and ref.current points to it. The effect has not run yet.
MountCommit(e, p) ==
  /\ Idle /\ NoPendingEffects
  /\ physics = "mounted"
  /\ est[e] = "new"
  /\ est' = [est EXCEPT ![e] = "rendered"]
  /\ props' = [props EXCEPT ![e] = p]
  /\ ref' = [ref EXCEPT ![e] = e]
  /\ UNCHANGED <<cache, world, physics, bodies, err, body, three, jbodies, added,
                 nextBodyId, pc, cur, stepArgs, synclog, hist, observing,
                 regcall, faulted>>

\* The mount effect, lines 104-153: shape selection, motion type selection,
\* CreateBody, AddBody, bodies.set. Either throw leaves before any body exists.
Effect(e) ==
  /\ Idle
  /\ EffectPending(e)
  /\ IF ~ShapeSupported(props[e].shape)
       THEN /\ est' = [est EXCEPT ![e] = "failed"]
            /\ err' = [err EXCEPT ![e] = "unsupported shape type"]
            /\ UNCHANGED <<bodies, body, jbodies, added, nextBodyId, hist>>
       ELSE IF ~TypeSupported(props[e].type)
         THEN /\ est' = [est EXCEPT ![e] = "failed"]
              /\ err' = [err EXCEPT ![e] = "unsupported type"]
              /\ UNCHANGED <<bodies, body, jbodies, added, nextBodyId, hist>>
         ELSE /\ jbodies' = CreateBody(jbodies, nextBodyId, BodyCreationSettings(e, props[e]))
              /\ nextBodyId' = nextBodyId + 1
              /\ added' = AddBody(added, nextBodyId, "Activate")
              /\ bodies' = MapSet(bodies, three[ref[e]].id, ref[e], nextBodyId)
              /\ body' = [body EXCEPT ![e] = nextBodyId]
              /\ est' = [est EXCEPT ![e] = "live"]
              /\ err' = err
              /\ hist' = IF ~observing THEN hist
                          ELSE [x \in Ents |->
                            IF x = e
                              THEN [NoHist EXCEPT !.countBefore = Cardinality(DOMAIN jbodies)]
                              ELSE IF est[x] \in {"live", "unmounting"}
                                THEN [hist[x] EXCEPT !.others = TRUE]
                                ELSE hist[x]]
  /\ UNCHANGED <<cache, world, physics, props, ref, three, pc, cur, stepArgs, synclog,
                 observing, regcall, faulted>>

\* A mounted RigidBody re-renders with other props. The effect's dependency
\* list is [], so neither the cleanup nor the effect runs again.
Rerender(e, p) ==
  /\ Idle /\ NoPendingEffects
  /\ physics = "mounted"
  /\ est[e] \in {"live", "failed"}
  /\ p # props[e]
  /\ props' = [props EXCEPT ![e] = p]
  /\ UNCHANGED <<cache, world, physics, bodies, est, ref, err, body, three, jbodies,
                 added, nextBodyId, pc, cur, stepArgs, synclog, hist, observing,
                 regcall, faulted>>

\* One RigidBody is removed while Physics stays mounted: the commit removes its
\* group. An instance whose effect threw has no cleanup.
UnmountCommit(e) ==
  /\ Idle /\ NoPendingEffects
  /\ physics = "mounted"
  /\ est[e] \in {"live", "failed"}
  /\ \E detached \in BOOLEAN :
       /\ est' = [est EXCEPT ![e] = IF est[e] = "live" THEN "unmounting" ELSE "gone"]
       /\ ref' = [ref EXCEPT ![e] = IF est[e] = "failed" \/ detached THEN NullRef ELSE ref[e]]
  /\ props' = [props EXCEPT ![e] = NoProps]
  /\ UNCHANGED <<cache, world, physics, bodies, err, body, three, jbodies, added,
                 nextBodyId, pc, cur, stepArgs, synclog, hist, observing,
                 regcall, faulted>>

\* A cleanup whose first statement is the DestroyBody call, the record still in
\* the Map.
CleanupDestroyFirst(e) ==
  /\ Idle
  /\ est[e] = "unmounting"
  /\ jbodies' = DestroyBody(jbodies, body[e])
  /\ pc' = "cleanup"
  /\ cur' = e
  /\ UNCHANGED <<cache, world, physics, bodies, est, props, ref, err, body, three,
                 added, nextBodyId, stepArgs, synclog, hist, observing, regcall,
                 faulted>>

\* The cleanup, line 155: bodies.delete(ref.current.id). Reading .id of a null
\* ref.current throws a TypeError, which ends the cleanup.
CleanupDelete(e) ==
  /\ Idle
  /\ est[e] = "unmounting"
  /\ IF ref[e] = NullRef
       THEN /\ est' = [est EXCEPT ![e] = "gone"]
            /\ err' = [err EXCEPT ![e] = "TypeError"]
            /\ UNCHANGED <<bodies, pc, cur>>
       ELSE /\ bodies' = MapDelete(bodies, three[ref[e]].id)
            /\ pc' = "cleanup"
            /\ cur' = e
            /\ UNCHANGED <<est, err>>
  /\ UNCHANGED <<cache, world, physics, props, ref, body, three, jbodies, added,
                 nextBodyId, stepArgs, synclog, hist, observing,
                 regcall, faulted>>

\* The cleanup, line 156: bodyInterface.DestroyBody(body.GetID()).
CleanupDestroy ==
  /\ pc = "cleanup"
  /\ jbodies' = DestroyBody(jbodies, body[cur])
  /\ est' = [est EXCEPT ![cur] = "gone"]
  /\ ref' = [ref EXCEPT ![cur] = NullRef]
  /\ pc' = "idle"
  /\ cur' = 0
  /\ hist' = IF ~observing THEN hist
              ELSE [x \in Ents |->
                IF x # cur /\ est[x] \in {"live", "unmounting"}
                  THEN [hist[x] EXCEPT !.others = TRUE] ELSE hist[x]]
  /\ UNCHANGED <<cache, world, physics, bodies, props, err, body, three, added,
                 nextBodyId, stepArgs, synclog, observing, regcall, faulted>>

-----------------------------------------------------------------------------
\* The frame callback

\* A frame callback that passes the raw delta on.
ClampDeltaNone(delta) == delta

\* Line 45: const deltaTime = Math.min(delta, 1.0 / 30.0)
ClampDelta(delta) == Min(delta, MaxDeltaTime)

\* A threshold test with >= for >.
NumStepsAtThreshold(deltaTime) == IF deltaTime >= SubstepThreshold THEN 2 ELSE 1

\* Line 48: const numSteps = deltaTime > 1.0 / 55.0 ? 2 : 1
NumSteps(deltaTime) == IF deltaTime > SubstepThreshold THEN 2 ELSE 1

\* Lines 45-51: clamp, sub-step count, Step.
FrameStep(delta) ==
  /\ Idle
  /\ physics = "mounted"
  /\ LET deltaTime == ClampDelta(delta)
         numSteps == NumSteps(deltaTime)
     IN  /\ stepArgs' = [raw |-> delta, deltaTime |-> deltaTime, numSteps |-> numSteps]
         /\ jbodies' = JoltStep(jbodies, added)
  /\ hist' = IF ~observing THEN hist
              ELSE [e \in Ents |->
                IF est[e] \in {"live", "unmounting"}
                  THEN [hist[e] EXCEPT !.ticked = TRUE] ELSE hist[e]]
  /\ pc' = "sync"
  /\ UNCHANGED <<cache, world, physics, bodies, est, props, ref, err, body, three,
                 added, nextBodyId, cur, synclog, observing, regcall, faulted>>

\* Lines 45-51 when joltInterface.Step throws: the exception leaves the callback
\* before the sync loop. What the failed step did to the bodies is the engine's
\* business: they are as before or as after a step. The callback keeps no record
\* of the failure and stays subscribed, and the frame loop requests the next
\* animation frame before it calls the subscribers, so later frames run.
FrameStepThrows(delta) ==
  /\ Idle
  /\ physics = "mounted"
  /\ faulted' = TRUE
  /\ \E stepped \in BOOLEAN :
       jbodies' = IF stepped THEN JoltStep(jbodies, added) ELSE jbodies
  /\ hist' = IF ~observing THEN hist
              ELSE [e \in Ents |->
                IF est[e] \in {"live", "unmounting"}
                  THEN [hist[e] EXCEPT !.ticked = TRUE] ELSE hist[e]]
  /\ UNCHANGED <<cache, world, physics, bodies, est, props, ref, err, body, three,
                 added, nextBodyId, pc, cur, stepArgs, synclog, observing, regcall>>

\* A loop that writes every entry's transform into the first entry's Object3D.
RECURSIVE SyncLoopFirstTarget(_, _, _, _, _, _)
SyncLoopFirstTarget(m, i, jb, th, log, g) ==
  IF i > Len(m) THEN [three |-> th, log |-> log]
  ELSE SyncLoopFirstTarget(m, i + 1, jb,
                [th EXCEPT ![m[1].three].position = GetPosition(jb, m[i].body, g),
                           ![m[1].three].quaternion = GetRotation(jb, m[i].body, g)],
                Append(log, m[i]),
                g)

\* Lines 54-59, from entry i on: for each entry of the Map in insertion order,
\* copy the body's position and rotation into the entry's Object3D. The result
\* is the Object3Ds after the loop and the entries it visited, in order.
\* deltaTime and numSteps are not read after Step.
RECURSIVE SyncLoop(_, _, _, _, _, _)
SyncLoop(m, i, jb, th, log, g) ==
  IF i > Len(m) THEN [three |-> th, log |-> log]
  ELSE SyncLoop(m, i + 1, jb,
                [th EXCEPT ![m[i].three].position = GetPosition(jb, m[i].body, g),
                           ![m[i].three].quaternion = GetRotation(jb, m[i].body, g)],
                Append(log, m[i]),
                g)

FrameSync ==
  /\ pc = "sync"
  /\ \E g \in {0, 1} :
       LET r == SyncLoop(bodies, 1, jbodies, three, <<>>, g)
       IN  /\ three' = r.three
           /\ synclog' = r.log
  /\ stepArgs' = NoCall
  /\ pc' = "synced"
  /\ UNCHANGED <<cache, world, physics, bodies, est, props, ref, err, body, jbodies,
                 added, nextBodyId, cur, hist, observing, regcall, faulted>>

\* A callback that empties the Map once it has synced.
FrameEndClearsRegistry ==
  /\ pc = "synced"
  /\ pc' = "idle"
  /\ synclog' = <<>>
  /\ bodies' = <<>>
  /\ UNCHANGED <<cache, world, physics, est, props, ref, err, body, three,
                 jbodies, added, nextBodyId, cur, stepArgs, hist, observing,
                 regcall, faulted>>

\* The callback returns: its locals are gone.
FrameEnd ==
  /\ pc = "synced"
  /\ pc' = "idle"
  /\ synclog' = <<>>
  /\ UNCHANGED <<cache, world, physics, bodies, est, props, ref, err, body, three,
                 jbodies, added, nextBodyId, cur, stepArgs, hist, observing,
                 regcall, faulted>>

-----------------------------------------------------------------------------
\* The registry's two mutating operations called directly, with any key and any
\* value, on whatever the Map holds.

\* Lines 149-152: bodies.set(key, {three, body}). Map.prototype.set inserts the
\* entry or replaces the value of the entry that has the key; it never throws.
RegistrySet(k, t, b) ==
  /\ Idle
  /\ bodies' = MapSet(bodies, k, t, b)
  /\ regcall' = [op |-> "set", key |-> k, before |-> bodies, threw |-> "none"]
  /\ UNCHANGED <<cache, world, physics, est, props, ref, err, body, three, jbodies,
                 added, nextBodyId, pc, cur, stepArgs, synclog, hist, observing,
                 faulted>>

\* Line 155: bodies.delete(key). Map.prototype.delete removes the entry that has
\* the key, if there is one; it never throws.
RegistryDelete(k) ==
  /\ Idle
  /\ bodies' = MapDelete(bodies, k)
  /\ regcall' = [op |-> "delete", key |-> k, before |-> bodies, threw |-> "none"]
  /\ UNCHANGED <<cache, world, physics, est, props, ref, err, body, three, jbodies,
                 added, nextBodyId, pc, cur, stepArgs, synclog, hist, observing,
                 faulted>>

-----------------------------------------------------------------------------
Next ==
  \/ PhysicsSuspend
  \/ JoltResolve
  \/ PhysicsMount
  \/ PhysicsUnmount
  \/ \E e \in Ents, p \in PropsSet : MountCommit(e, p)
  \/ \E e \in Ents : Effect(e)
  \/ \E e \in Ents, p \in RerenderProps : Rerender(e, p)
  \/ \E e \in Ents : UnmountCommit(e)
  \/ \E e \in Ents : CleanupDelete(e)
  \/ CleanupDestroy
  \/ \E delta \in SceneDeltas : FrameStep(delta)
  \/ FrameSync
  \/ FrameEnd

Spec == Init /\ [][Next]_vars

\* The stepper alone: Physics mounts and frames run with every raw delta.
NextStepper ==
  \/ PhysicsSuspend
  \/ JoltResolve
  \/ PhysicsMount
  \/ \E delta \in RawDeltas : FrameStep(delta)
  \/ FrameSync
  \/ FrameEnd

SpecStepper == Init /\ [][NextStepper]_vars

\* The program with the history of each instance recorded.
InitObserved == InitProgram /\ observing = TRUE

SpecObserved == InitObserved /\ [][Next]_vars

\* The program with an engine whose step may fail.
NextFault ==
  \/ Next
  \/ \E delta \in SceneDeltas : FrameStepThrows(delta)

SpecFault == Init /\ [][NextFault]_vars

\* The registry alone: its operations applied to every key, Object3D and body.
NextRegistry ==
  \/ \E k \in Ents, t \in Ents, b \in Ents : RegistrySet(k, t, b)
  \/ \E k \in Ents : RegistryDelete(k)

SpecRegistry == Init /\ [][NextRegistry]_vars

-----------------------------------------------------------------------------
\* Vocabulary of the properties.

\* The instance's effect created a body.
Created(e) == body[e] # NoBody

\* The instance's cleanup has run (to its end or to its throw).
Destroyed(e) == Created(e) /\ est[e] = "gone"

\* The registry holds a record for the instance's Object3D.
HasRecord(e) == \E i \in 1..Len(bodies) : bodies[i].three = e

\* The bodies allocated in the world on the instance's behalf.
BodiesOf(e) == {b \in DOMAIN jbodies : jbodies[b].owner = e}

BodyCount == Cardinality(DOMAIN jbodies)

InFrame == pc \in {"sync", "synced"}

\* The frame callback has called Step and not yet started the sync loop.
Stepped == pc = "sync"

Mounted(e) == est[e] \in {"rendered", "live", "failed"}

\* The worlds that exist: those the load created, since nothing in the program
\* destroys the JoltInterface or clears the cache of the load.
WorldsAlive == world.created

\* The entries of m in the order perm.
Reordered(m, perm) == [i \in 1..Len(m) |-> m[perm[i]]]

-----------------------------------------------------------------------------
\* C1: an instance created and then destroyed with no frame tick in between
\* leaves no record in the registry and no body allocated in the world, and
\* (nothing else having created or destroyed a body meanwhile) the world's body
\* count is what it was before the creation.
C1_CreateDestroyLeavesNothing ==
  \A e \in Ents :
    (Destroyed(e) /\ ~hist[e].ticked) =>
      /\ ~HasRecord(e)
      /\ body[e] \notin DOMAIN jbodies
      /\ (~hist[e].others => BodyCount = hist[e].countBefore)

\* C2: release on every exit path: once an instance is destroyed, by its own
\* unmount or by the teardown of the scene, its body is not allocated, its
\* record is not in the registry, and no sync pass writes to its Object3D.
C2_ReleaseOnEveryExitPath ==
  \A e \in Ents :
    Destroyed(e) =>
      /\ body[e] \notin DOMAIN jbodies
      /\ ~HasRecord(e)
      /\ \A i \in 1..Len(synclog) : synclog[i].three # e

\* C3: every record of the registry refers to a body that is allocated in the
\* world, and the sync pass reads only allocated bodies.
C3_RecordsReferToLiveBodies ==
  /\ \A i \in 1..Len(bodies) : bodies[i].body \in DOMAIN jbodies
  /\ \A i \in 1..Len(synclog) : synclog[i].body \in DOMAIN jbodies

\* C3's case: a sync pass has read a record while another instance's body was
\* already destroyed.
C3_Witness ==
  /\ pc = "synced"
  /\ Len(synclog) >= 1
  /\ \E e \in Ents : Destroyed(e) /\ body[e] \notin DOMAIN jbodies

\* C4: the delta passed to the engine step is min(rawDelta, 1/30 s), hence at
\* most 1/30 s.
C4_DeltaClamped ==
  Stepped =>
    /\ stepArgs.deltaTime * ClampHz <= UnitsPerSecond
    /\ stepArgs.deltaTime =
         (IF stepArgs.raw * ClampHz <= UnitsPerSecond
            THEN stepArgs.raw ELSE UnitsPerSecond \div ClampHz)

\* C4's case: a frame whose raw delta is above 1/30 s has stepped.
C4_Witness ==
  Stepped /\ stepArgs.raw * ClampHz > UnitsPerSecond

\* C5: the sub-step count passed to the engine step is 2 when rawDelta > 1/55 s
\* and 1 otherwise.
C5_SubStepCount ==
  Stepped =>
    stepArgs.numSteps = (IF stepArgs.raw * SubstepHz > UnitsPerSecond THEN 2 ELSE 1)

\* C5's case: a frame whose raw delta is exactly 1/55 s has stepped once.
C5_Witness ==
  Stepped /\ stepArgs.raw * SubstepHz = UnitsPerSecond /\ stepArgs.numSteps = 1

\* C6: the sync pass visits every record of the registry exactly once, writes
\* each record's own body position and rotation into that record's own
\* Object3D and into no other, and yields the same Object3Ds whatever the order
\* of the visits.
C6_SyncPassVisitsEachRecordOnce ==
  [][ (pc = "sync" /\ pc' = "synced") =>
        /\ Len(synclog') = Len(bodies)
        /\ \A i \in 1..Len(bodies) :
             /\ Cardinality({j \in 1..Len(synclog') : synclog'[j] = bodies[i]}) = 1
             /\ three[bodies[i].three].id = bodies[i].key
             /\ bodies[i].body \in DOMAIN jbodies
             /\ three'[bodies[i].three].position = jbodies[bodies[i].body].p
             /\ three'[bodies[i].three].quaternion = jbodies[bodies[i].body].q
        /\ \A o \in Ents : ~HasRecord(o) => three'[o] = three[o]
        /\ \A perm \in Permutations(1..Len(bodies)) :
             SyncLoop(Reordered(bodies, perm), 1, jbodies, three, <<>>, 0).three = three'
    ]_vars

\* C6's case: a sync pass has visited two records whose bodies are in different
\* poses.
C6_Witness ==
  /\ pc = "synced"
  /\ Len(synclog) = 2
  /\ jbodies[synclog[1].body].p # jbodies[synclog[2].body].p

\* C7: strict phase ordering: the creations and destructions requested before
\* a frame are fully applied before its engine step starts, the step completes
\* before the sync pass starts, and the sync pass starts from nothing visited.
C7_StrictPhaseOrdering ==
  /\ InFrame => NoPendingEffects
  /\ Stepped => stepArgs # NoCall /\ synclog = <<>>

\* C8: a mounted instance has at most one body allocated in the world on its
\* behalf and at most one record keyed by its Object3D's id.
C8_AtMostOneBodyPerEntity ==
  \A e \in Ents :
    Mounted(e) =>
      /\ Cardinality(BodiesOf(e)) <= 1
      /\ Cardinality({i \in 1..Len(bodies) : bodies[i].key = three[e].id}) <= 1

\* C8's case: a live instance has re-rendered with a type other than the one
\* its body was created with, and has its one body and its one record.
C8_Witness ==
  \E e \in Ents :
    /\ est[e] = "live"
    /\ body[e] \in DOMAIN jbodies
    /\ MotionTypeOf(props[e].type) # jbodies[body[e]].motionType
    /\ Cardinality(BodiesOf(e)) = 1
    /\ HasRecord(e)

\* C9: an effect that runs with a shape outside {box, sphere} throws
\* "unsupported shape type", creates no body and leaves the registry as it was.
C9_UnsupportedShapeCreatesNothing ==
  [][ \A e \in Ents :
        (est[e] = "rendered" /\ est'[e] # "rendered"
           /\ props[e].shape \notin {"box", "sphere"}) =>
          /\ est'[e] = "failed"
          /\ err'[e] = "unsupported shape type"
          /\ jbodies' = jbodies
          /\ added' = added
          /\ bodies' = bodies
    ]_vars

\* C9's case: an effect has thrown on its shape while another instance is live.
C9_Witness ==
  \E e \in Ents :
    /\ est[e] = "failed" /\ err[e] = "unsupported shape type"
    /\ \E x \in Ents : est[x] = "live"

\* C10: an effect that runs with a type outside {static, kinematic, dynamic}
\* throws, and the instance never enters the simulation: no body is created or
\* added and no record is inserted.
C10_UnsupportedTypeCreatesNothing ==
  [][ \A e \in Ents :
        (est[e] = "rendered" /\ est'[e] # "rendered"
           /\ props[e].type \notin {"static", "kinematic", "dynamic"}) =>
          /\ est'[e] = "failed"
          /\ err'[e] \in {"unsupported shape type", "unsupported type"}
          /\ body'[e] = NoBody
          /\ jbodies' = jbodies
          /\ added' = added
          /\ bodies' = bodies
    ]_vars

\* C10's case: an effect has thrown on its type, its shape being supported,
\* while another instance is live.
C10_Witness ==
  \E e \in Ents :
    /\ est[e] = "failed" /\ err[e] = "unsupported type"
    /\ \E x \in Ents : est[x] = "live"

\* C11: a registration under a key that the registry already holds fails with
\* DuplicateEntity and leaves the registry, the existing record included, as it
\* was.
C11_DuplicateRegistrationFails ==
  (regcall.op = "set" /\ MapHas(regcall.before, regcall.key)) =>
    /\ regcall.threw = "DuplicateEntity"
    /\ bodies = regcall.before

\* C12: an unregistration of a key that the registry does not hold fails with
\* UnknownEntity; an unregistration of a key it holds removes that key's record
\* and no other.
C12_UnknownUnregistrationFails ==
  regcall.op = "delete" =>
    IF MapHas(regcall.before, regcall.key)
      THEN /\ ~MapHas(bodies, regcall.key)
           /\ bodies = SelectSeq(regcall.before, LAMBDA r : r.key # regcall.key)
      ELSE /\ regcall.threw = "UnknownEntity"
           /\ bodies = regcall.before

\* C13: one world per running scene: a mounted scene has exactly one world, and
\* once the scene is unmounted and its cleanups have run no world is alive, so
\* that none is left for a later scene to reuse.
C13_OneWorldPerScene ==
  /\ physics = "mounted" => WorldsAlive = 1
  /\ (physics = "unmounted" /\ NoPendingEffects /\ Idle) => WorldsAlive = 0

\* C14: the load of the engine runs once and precedes every use of the engine:
\* a step that calls Step, CreateBody, AddBody or DestroyBody starts with the
\* load resolved and its one world created, and once the load is resolved no
\* step suspends Physics, creates a world or changes the load's result.
C14_LoadPrecedesEngineUse ==
  [][ /\ world'.created <= 1
      /\ ((pc = "idle" /\ pc' = "sync") \/ jbodies' # jbodies \/ added' # added) =>
            (cache = "resolved" /\ world.created = 1)
      /\ cache = "resolved" =>
            (cache' = "resolved" /\ world' = world /\ physics' # "suspended")
    ]_vars

\* C14's case: a frame has stepped a world that holds a body, after the cleanup
\* of an instance has run.
C14_Witness ==
  /\ pc = "sync"
  /\ DOMAIN jbodies # {}
  /\ \E e \in Ents : est[e] = "gone"
  /\ cache = "resolved" /\ world.created = 1

\* C15: a failure of the engine step is fatal to the frame loop: the frame whose
\* step failed runs no sync pass, and no later frame steps or synchronizes.
C15_StepFailureIsFatal ==
  [][ /\ (~faulted /\ faulted') => (pc' = "idle" /\ three' = three)
      /\ faulted => (pc' = "idle" /\ three' = three)
    ]_vars

\* C16: the record goes before the body: a step that destroys a body starts
\* with no record of that body in the registry (the cleanup has removed it in an
\* earlier step), and no step leaves a record whose body is not allocated.
C16_RecordRemovedBeforeBodyDestroyed ==
  [][ /\ \A b \in DOMAIN jbodies \ DOMAIN jbodies' :
           /\ \A i \in 1..Len(bodies) : bodies[i].body # b
           /\ pc = "cleanup" /\ body[cur] = b /\ ~HasRecord(cur)
      /\ \A i \in 1..Len(bodies') : bodies'[i].body \in DOMAIN jbodies'
    ]_vars

\* C16's case: a cleanup is between its two statements, its record removed and
\* its body still allocated, while another instance has its record and body.
C16_Witness ==
  /\ pc = "cleanup"
  /\ ~HasRecord(cur)
  /\ body[cur] \in DOMAIN jbodies
  /\ \E x \in Ents : x # cur /\ HasRecord(x) /\ body[x] \in DOMAIN jbodies

\* C17: a body is created with the motion type and object layer of its
\* instance's type: static -> (Static, NON_MOVING), kinematic -> (Kinematic,
\* MOVING), dynamic -> (Dynamic, MOVING); and every body created is added to the
\* world, activated, in the step that creates it.
C17_MotionClassMapping ==
  [][ /\ \A b \in DOMAIN jbodies' \ DOMAIN jbodies :
           /\ b \in added'
           /\ <<props[jbodies'[b].owner].type,
                jbodies'[b].motionType, jbodies'[b].objectLayer>> \in
                  { <<"static", "Static", "NON_MOVING">>,
                    <<"kinematic", "Kinematic", "MOVING">>,
                    <<"dynamic", "Dynamic", "MOVING">> }
      /\ \A e \in Ents :
           (est[e] = "rendered" /\ est'[e] = "live") =>
             body'[e] \in DOMAIN jbodies' \ DOMAIN jbodies
    ]_vars

\* C17's case: a static body and a kinematic body have been created and added.
C17_Witness ==
  /\ \E b \in DOMAIN jbodies :
       /\ jbodies[b].motionType = "Static" /\ jbodies[b].objectLayer = "NON_MOVING"
       /\ b \in added
  /\ \E b \in DOMAIN jbodies :
       /\ jbodies[b].motionType = "Kinematic" /\ jbodies[b].objectLayer = "MOVING"
       /\ b \in added

\* C18: a frame tick does not mutate the registry or the world's set of bodies:
\* over each step of the frame callback (the engine step, the sync pass, the
\* return) the registry has the same keys with the same Object3D and body under
\* each, and no body is created, added or destroyed.
C18_FrameKeepsRegistry ==
  [][ ((pc = "idle" /\ pc' = "sync") \/ pc = "sync" \/ pc = "synced") =>
        /\ MapKeys(bodies') = MapKeys(bodies)
        /\ Len(bodies') = Len(bodies)
        /\ \A i \in 1..Len(bodies) : \E j \in 1..Len(bodies') : bodies'[j] = bodies[i]
        /\ DOMAIN jbodies' = DOMAIN jbodies
        /\ added' = added
    ]_vars

\* C18's case: a frame has stepped and synced a registry of two records, and
\* has moved an Object3D.
C18_Witness ==
  /\ pc = "idle"
  /\ Len(bodies) = 2
  /\ \E o \in Ents : HasRecord(o) /\ three[o].position # NewObject3D(o).position

\* C19: the cleanup of an instance removes the record its effect inserted and
\* destroys the body its effect created, and nothing else: when the cleanup
\* ends, the key it read from ref.current is the key of the insertion, the
\* registry holds no record under that key, the instance's body is the one body
\* gone from the world, and every other record is where it was.
C19_CleanupRemovesItsOwn ==
  [][ \A e \in Ents :
        (est[e] = "unmounting" /\ est'[e] = "gone") =>
          /\ ref[e] # NullRef
          /\ three[ref[e]].id = three[e].id
          /\ ~MapHas(bodies', three[e].id)
          /\ body[e] \notin DOMAIN jbodies'
          /\ DOMAIN jbodies \ DOMAIN jbodies' \subseteq {body[e]}
          /\ \A i \in 1..Len(bodies) :
               bodies[i].key # three[e].id =>
                 \E j \in 1..Len(bodies') : bodies'[j] = bodies[i]
    ]_vars

\* C20: no orphan bodies: when a frame starts, the bodies allocated in the world
\* it steps are exactly the bodies of the records in the registry it syncs.
C20_NoOrphanBodies ==
  [][ (pc = "idle" /\ pc' = "sync") =>
        DOMAIN jbodies = {bodies[i].body : i \in 1..Len(bodies)}
    ]_vars

====
